---- MODULE Spec2Model ----
(***************************************************************************)
(* The in-memory node graph of the CRIPT Python SDK: BaseNode (core.py),   *)
(* Algorithm, SoftwareConfiguration and PrimaryBaseNode.  A node is an     *)
(* identity (a number) that owns one attribute record; the heap maps each  *)
(* identity to its current record.  Every public operation is one action   *)
(* that runs the whole handler, validation and rollback included, and      *)
(* leaves its outcome (error raised, value returned) in `last`.            *)
(*                                                                         *)
(* BaseNode.__init__ takes no argument, so the constructors of Algorithm   *)
(* and PrimaryBaseNode, which hand it one, raise TypeError on every call:  *)
(* the graphs the constructors build hold SoftwareConfiguration nodes      *)
(* only (Init).  The methods of the two other classes are applied, in a    *)
(* specification of their own (SpecBare), to instances allocated with      *)
(* cls.__new__(cls) and initialised by BaseNode.__init__.                  *)
(***************************************************************************)
EXTENDS Integers, Sequences, FiniteSets, TLC

\* ------------------------------------------------------------------ bounds
MaxLen == 2      \* longest list handed to a list setter
MaxDepth == 2    \* largest positive search depth handed to find_children
MaxIteration == 2  \* largest budget handed to the repair helper

\* --------------------------------------------------------------- universe
None == 0

SCNodes == {1, 2, 3, 4}
AlgNodes == {5}
PrimNodes == {6}
Nodes == SCNodes \cup AlgNodes \cup PrimNodes

\* The identity of the object a call of cls._from_json allocates, one per
\* class.
NewSC == 7
NewAlg == 8
NewPrim == 9

NoError == "no error"
SchemaError == "CRIPTNodeSchemaError"
CycleError == "CRIPTNodeCycleError"
IndexError == "IndexError"
TypeError == "TypeError"
UIDError == "CRIPTDeserializationUIDError"
OrphanedMaterialError == "CRIPTOrphanedMaterialError"
OrphanedProcessError == "CRIPTOrphanedProcessError"
RuntimeError == "RuntimeError"

\* A string the schema service rejects in any string field.
BadStr == "bad"

Range(s) == {s[i] : i \in 1..Len(s)}

\* The value of the `node` field: a list of tags, or (the class default of
\* Algorithm) one bare string.
TagList(tags) == [list |-> TRUE, v |-> tags]
TagStr(tag) == [list |-> FALSE, v |-> <<tag>>]

\* type(self).__name__
node_type(n) ==
  IF n \in SCNodes \cup {NewSC} THEN "SoftwareConfiguration"
  ELSE IF n \in AlgNodes \cup {NewAlg} THEN "Algorithm"
  ELSE "PrimaryBaseNode"

\* __dataclass_fields__ of the class's JsonAttributes, in declaration order
\* (inherited fields first).
Fields(cls) ==
  IF cls = "SoftwareConfiguration"
    THEN <<"node", "software", "algorithms", "notes", "citation">>
  ELSE IF cls = "Algorithm"
    THEN <<"node", "key", "type", "parameter", "citation">>
  ELSE <<"node", "url", "uid", "locked", "model_version", "updated_by",
         "created_by", "public", "name", "notes">>

\* What a field holds: the tag list, a string, a boolean, one node or None,
\* or a list of nodes.
FieldKind(f) ==
  IF f = "node" THEN "tags"
  ELSE IF f \in {"software", "updated_by", "created_by"} THEN "ref"
  ELSE IF f \in {"algorithms", "parameter", "citation"} THEN "list"
  ELSE IF f \in {"locked", "public"} THEN "bool"
  ELSE "str"

\* cls.JsonAttributes(): the record of class defaults.
JsonAttributes(cls) ==
  IF cls = "SoftwareConfiguration"
    THEN [node |-> TagList(<<>>), software |-> None, algorithms |-> <<>>,
          notes |-> "", citation |-> <<>>]
  ELSE IF cls = "Algorithm"
    THEN [node |-> TagStr("Algorithm"), key |-> "", type |-> "",
          parameter |-> <<>>, citation |-> <<>>]
  ELSE [node |-> TagList(<<>>), url |-> "", uid |-> "", locked |-> FALSE,
        model_version |-> "", updated_by |-> None, created_by |-> None,
        public |-> FALSE, name |-> "", notes |-> ""]

\* dataclasses.replace(attrs, f=v)
replace(attrs, f, v) == [attrs EXCEPT ![f] = v]

\* BaseNode.__init__: the record of defaults with node = [node_type].
BaseNodeInit(n) ==
  replace(JsonAttributes(node_type(n)), "node", TagList(<<node_type(n)>>))

\* Algorithm.__init__: super().__init__(node="Algorithm") raises TypeError,
\* BaseNode.__init__ taking no argument; the assignments after it are not
\* reached and no node is built.  [err, attrs]: attrs is the record of the
\* object that is dropped, the class attribute _json_attrs.
AlgorithmInit(key, type, parameter, citation) ==
  [err |-> TypeError, attrs |-> JsonAttributes("Algorithm")]

\* PrimaryBaseNode.__init__: super().__init__(node) raises TypeError.
PrimaryBaseNodeInit(node) ==
  [err |-> TypeError, attrs |-> JsonAttributes("PrimaryBaseNode")]

\* SoftwareConfiguration.__init__ called with its four parameters and no
\* other keyword.
SoftwareConfigurationInit(n, software, algorithms, notes, citation) ==
  replace(replace(replace(replace(BaseNodeInit(n), "software", software),
          "algorithms", algorithms), "notes", notes), "citation", citation)

\* heap: the record of every node; last: the outcome of the last call;
\* caller: the one list object the calling code keeps a name for (lst, its
\* elements) and the fields whose record holds that very list object
\* (held).
VARIABLES heap, last, caller
vars == <<heap, last, caller>>

\* ------------------------------------------------------------- the graph
\* The nodes a record refers to, through singular and through list fields.
Children(h, n) ==
  UNION {IF FieldKind(f) = "ref" THEN {h[n][f]} \ {None}
         ELSE IF FieldKind(f) = "list" THEN Range(h[n][f])
         ELSE {} : f \in Range(Fields(node_type(n)))}

RECURSIVE ReachFrom(_, _)
ReachFrom(h, S) ==
  LET T == S \cup UNION {Children(h, m) : m \in S}
  IN IF T = S THEN S ELSE ReachFrom(h, T)

\* The graph rooted at n: n and everything it reaches.
Graph(h, n) == ReachFrom(h, {n})

\* n is reachable from itself in one or more reference steps.
SelfReachable(h, n) == n \in ReachFrom(h, Children(h, n)) /\ Children(h, n) # {}

\* ----------------------------------------------------------- validation
\* The schema service on self.json: the document inlines every node of the
\* graph, and is rejected when one of them holds a rejected string.
OwnSchemaOk(attrs, cls) ==
  \A f \in Range(Fields(cls)) : FieldKind(f) = "str" => attrs[f] # BadStr

_is_node_schema_valid(h, n) ==
  \A m \in Graph(h, n) : OwnSchemaOk(h[m], node_type(m))

\* isinstance(value, BaseNode) for the value of field f
IsNode(f, value) == FieldKind(f) = "ref" /\ value # None

RECURSIVE _has_cycle(_, _, _), HasCycleFields(_, _, _, _)
\* BaseNode._has_cycle: [cycle, handled]; handled is the list every
\* recursive call appends to.
_has_cycle(h, n, handled_nodes) ==
  IF n \in Range(handled_nodes)
    THEN [cycle |-> TRUE, handled |-> handled_nodes]
    ELSE HasCycleFields(h, n, 1, Append(handled_nodes, n))

\* The loop over the fields, from the i-th on.
HasCycleFields(h, n, i, handled_nodes) ==
  LET fs == Fields(node_type(n)) IN
  IF i > Len(fs) THEN [cycle |-> FALSE, handled |-> handled_nodes]
  ELSE LET value == h[n][fs[i]] IN
    IF IsNode(fs[i], value)
      THEN LET r == _has_cycle(h, value, handled_nodes) IN
           IF r.cycle THEN r ELSE HasCycleFields(h, n, i + 1, r.handled)
      ELSE HasCycleFields(h, n, i + 1, handled_nodes)

\* BaseNode.validate: the error it raises, or NoError.
validate(h, n) ==
  IF ~_is_node_schema_valid(h, n) THEN SchemaError
  ELSE IF _has_cycle(h, n, <<>>).cycle THEN CycleError
  ELSE NoError

\* _update_json_attrs_if_valid without the restoring assignment of its
\* except branch.
UpdateWithoutRestore(h, n, new_json_attr) ==
  LET installed == [h EXCEPT ![n] = new_json_attr]
  IN [heap |-> installed, err |-> validate(installed, n)]

\* BaseNode._update_json_attrs_if_valid: the heap afterwards and the error
\* re-raised.
_update_json_attrs_if_valid(h, n, new_json_attr) ==
  LET old_json_attrs == h[n]
      installed == [h EXCEPT ![n] = new_json_attr]
      exc == validate(installed, n)
  IN IF exc # NoError
       THEN [heap |-> [installed EXCEPT ![n] = old_json_attrs], err |-> exc]
       ELSE [heap |-> installed, err |-> NoError]

\* An Algorithm setter: the record is replaced, then validated; nothing is
\* restored.
AlgorithmSet(h, n, f, v) ==
  LET installed == [h EXCEPT ![n] = replace(h[n], f, v)]
  IN [heap |-> installed, err |-> validate(installed, n)]

\* A SoftwareConfiguration setter.
SoftwareConfigurationSet(h, n, f, v) ==
  _update_json_attrs_if_valid(h, n, replace(h[n], f, v))

\* ---------------------------------------------------------- remove_child
\* del lst[i] (i counted from 1)
DelAt(lst, i) == SubSeq(lst, 1, i - 1) \o SubSeq(lst, i + 1, Len(lst))

RECURSIVE RemoveFromList(_, _, _, _)
\* The inner loop of remove_child over `value`, from position i on: every
\* position of value that is the child deletes that index of new_attr_list.
RemoveFromList(value, child, i, acc) ==
  IF i > Len(value) THEN acc
  ELSE IF value[i] = child
    THEN IF i <= Len(acc.lst)
           THEN RemoveFromList(value, child, i + 1,
                  [lst |-> DelAt(acc.lst, i), found |-> TRUE, err |-> NoError])
           ELSE [lst |-> acc.lst, found |-> TRUE, err |-> IndexError]
    ELSE RemoveFromList(value, child, i + 1, acc)

RECURSIVE RemoveLoop(_, _, _, _, _)
\* The outer loop of remove_child over the fields, from the i-th on.
\* acc.changed: new_attrs is no longer self._json_attrs.
RemoveLoop(attrs, cls, child, i, acc) ==
  LET fs == Fields(cls) IN
  IF i > Len(fs) THEN acc
  ELSE LET f == fs[i]
           value == attrs[f]
       IN IF FieldKind(f) = "ref" /\ value = child
            THEN RemoveLoop(attrs, cls, child, i + 1,
                   [attrs |-> replace(acc.attrs, f, JsonAttributes(cls)[f]),
                    changed |-> TRUE, err |-> NoError])
          ELSE IF FieldKind(f) = "list"
            THEN LET r == RemoveFromList(value, child, 1,
                            [lst |-> value, found |-> FALSE, err |-> NoError])
                 IN IF r.err # NoError
                      THEN [attrs |-> acc.attrs, changed |-> acc.changed,
                            err |-> r.err]
                    ELSE IF r.found
                      THEN [attrs |-> replace(acc.attrs, f, r.lst),
                            changed |-> TRUE, err |-> NoError]
                    ELSE RemoveLoop(attrs, cls, child, i + 1, acc)
          ELSE RemoveLoop(attrs, cls, child, i + 1, acc)

\* remove_child without the early `return False`: the unchanged record goes
\* through validation and True is returned.
RemoveChildAlwaysUpdates(h, n, child) ==
  LET r == RemoveLoop(h[n], node_type(n), child, 1,
                      [attrs |-> h[n], changed |-> FALSE, err |-> NoError])
  IN IF r.err # NoError
       THEN [heap |-> h, err |-> r.err, ret |-> "raise", validated |-> FALSE]
     ELSE LET u == _update_json_attrs_if_valid(h, n, r.attrs)
          IN [heap |-> u.heap, err |-> u.err,
              ret |-> IF u.err = NoError THEN "True" ELSE "raise",
              validated |-> TRUE]

\* BaseNode.remove_child: heap afterwards, error raised, value returned and
\* whether validation ran.
remove_child(h, n, child) ==
  LET r == RemoveLoop(h[n], node_type(n), child, 1,
                      [attrs |-> h[n], changed |-> FALSE, err |-> NoError])
  IN IF r.err # NoError
       THEN [heap |-> h, err |-> r.err, ret |-> "raise", validated |-> FALSE]
     ELSE IF ~r.changed
       THEN [heap |-> h, err |-> NoError, ret |-> "False", validated |-> FALSE]
     ELSE LET u == _update_json_attrs_if_valid(h, n, r.attrs)
          IN [heap |-> u.heap, err |-> u.err,
              ret |-> IF u.err = NoError THEN "True" ELSE "raise",
              validated |-> TRUE]

\* --------------------------------------------------------- find_children
\* A search_attr dictionary is a sequence of entries [key, vals], one per
\* key; vals is the requested value as a list (a value that is no list is
\* the list of itself).  A requested value is a plain string or a nested
\* dictionary.
Plain(s) == [kind |-> "plain", s |-> s, d |-> <<>>]
Dict(d) == [kind |-> "dict", s |-> "", d |-> d]
Entry(key, vals) == [key |-> key, vals |-> vals]

\* asdict(node._json_attrs).get(key) as a list: the strings among its
\* elements (None, booleans and nodes equal no string).
PlainElems(attrs, cls, key) ==
  IF key \notin Range(Fields(cls)) THEN {}
  ELSE IF FieldKind(key) = "tags" THEN Range(attrs[key].v)
  ELSE IF FieldKind(key) = "str" THEN {attrs[key]}
  ELSE {}

\* ... and the nodes among its elements, in list order.
NodeElems(attrs, cls, key) ==
  IF key \notin Range(Fields(cls)) THEN <<>>
  ELSE IF FieldKind(key) = "list" THEN attrs[key]
  ELSE IF IsNode(key, attrs[key]) THEN <<attrs[key]>>
  ELSE <<>>

\* found_attr == len(search_attr) with `>` for `==`.
AnyAttrFound(found_attr, search_attr) == found_attr > 0

\* found_attr == len(search_attr)
AllAttrsFound(found_attr, search_attr) == found_attr = Len(search_attr)

\* The list of handled nodes were each call given its own copy: what the
\* callee appended is lost to the caller.
HandledNotShared(before, after) == before

\* handled_nodes as the caller sees it when a recursive call returns: the
\* one list, with what the callee appended to it in place.
HandledAfterCall(before, after) == after

RECURSIVE is_attr_present(_, _, _, _), CountValues(_, _, _, _, _),
          SelfMatch(_, _, _), CountAttrs(_, _, _, _)

\* Some node among attr_key matches the dictionary v by itself
\* (find_children(v, 0) is not empty).
NodeMatches(h, nodes, v) ==
  \E i \in 1..Len(nodes) : SelfMatch(h, nodes[i], v.d)

\* number_values_found after the loop over value, from its j-th element on
CountValues(h, n, key, value, j) ==
  IF j > Len(value) THEN 0
  ELSE LET v == value[j]
           cls == node_type(n)
           simple == IF v.kind = "plain" /\ v.s \in PlainElems(h[n], cls, key)
                       THEN 1 ELSE 0
           nested == IF v.kind = "dict"
                        /\ NodeMatches(h, NodeElems(h[n], cls, key), v)
                       THEN 1 ELSE 0
       IN simple + nested + CountValues(h, n, key, value, j + 1)

\* is_attr_present that is content with one requested value being met.
AnyValuePresent(h, n, key, value) ==
  value = <<>> \/ CountValues(h, n, key, value, 1) > 0

\* is_attr_present(node, key, value)
is_attr_present(h, n, key, value) ==
  CountValues(h, n, key, value, 1) = Len(value)

\* found_attr after the loop over search_attr, from its i-th entry on
CountAttrs(h, n, search_attr, i) ==
  IF i > Len(search_attr) THEN 0
  ELSE (IF is_attr_present(h, n, search_attr[i].key, search_attr[i].vals)
          THEN 1 ELSE 0) + CountAttrs(h, n, search_attr, i + 1)

\* The node itself matches the search criterion.
SelfMatch(h, n, search_attr) ==
  AllAttrsFound(CountAttrs(h, n, search_attr, 1), search_attr)

\* The elements of one field value taken from the last to the first.
RecursionElemsReversed(attrs, f) ==
  IF FieldKind(f) = "list"
    THEN [j \in 1..Len(attrs[f]) |-> attrs[f][Len(attrs[f]) + 1 - j]]
  ELSE IF IsNode(f, attrs[f]) THEN <<attrs[f]>>
  ELSE <<>>

\* The elements find_children recurses into for one field value, in order:
\* the value as a list, less what has no find_children attribute.
RecursionElems(attrs, f) ==
  IF FieldKind(f) = "list" THEN attrs[f]
  ELSE IF IsNode(f, attrs[f]) THEN <<attrs[f]>>
  ELSE <<>>

RECURSIVE find_children(_, _, _, _, _), FindFields(_, _, _, _, _, _),
          FindElems(_, _, _, _, _, _)

\* BaseNode.find_children: [found, handled, evals]: the result list, the
\* handled_nodes list, and the nodes the criterion was evaluated on.
find_children(h, n, search_attr, search_depth, acc) ==
  IF n \in Range(acc.handled)
    THEN [found |-> <<>>, handled |-> acc.handled, evals |-> acc.evals]
  ELSE LET me == [found |-> IF SelfMatch(h, n, search_attr) THEN <<n>>
                            ELSE <<>>,
                  handled |-> Append(acc.handled, n),
                  evals |-> Append(acc.evals, n)]
       IN IF search_depth # 0
            THEN FindFields(h, n, search_attr, search_depth, 1, me)
            ELSE me

\* The loop over the fields, from the i-th on.
FindFields(h, n, search_attr, search_depth, i, acc) ==
  LET fs == Fields(node_type(n)) IN
  IF i > Len(fs) THEN acc
  ELSE FindFields(h, n, search_attr, search_depth, i + 1,
         FindElems(h, RecursionElems(h[n], fs[i]), search_attr, search_depth,
                   1, acc))

\* The loop over the elements of one field value, from the j-th on.
FindElems(h, value, search_attr, search_depth, j, acc) ==
  IF j > Len(value) THEN acc
  ELSE LET r == find_children(h, value[j], search_attr, search_depth - 1, acc)
       IN FindElems(h, value, search_attr, search_depth, j + 1,
            [found |-> acc.found \o r.found,
             handled |-> HandledAfterCall(acc.handled, r.handled),
             evals |-> r.evals])

\* ------------------------------------------------------------ JSON codec
\* A JSON value standing for a node: null, a full object (the node's uid
\* and its fields, nodes below it encoded in place), or a reference object
\* holding the uid alone.  A node's uid is its identity.
JNull == [kind |-> "null", uid |-> None, attrs |-> <<>>]
JRef(uid) == [kind |-> "ref", uid |-> uid, attrs |-> <<>>]
JNode(uid, attrs) == [kind |-> "node", uid |-> uid, attrs |-> attrs]

RECURSIVE EncodeNode(_, _, _), EncodeFields(_, _, _, _),
          EncodeList(_, _, _, _)
\* NodeEncoder in condensed mode: the first encounter of a node is written
\* in full, every later one as a reference.  [doc, seen]
EncodeNode(h, n, seen) ==
  IF n \in seen THEN [doc |-> JRef(n), seen |-> seen]
  ELSE LET r == EncodeFields(h, n, 1, [attrs |-> h[n], seen |-> seen \cup {n}])
       IN [doc |-> JNode(n, r.attrs), seen |-> r.seen]

EncodeFields(h, n, i, acc) ==
  LET fs == Fields(node_type(n)) IN
  IF i > Len(fs) THEN acc
  ELSE LET f == fs[i]
           value == h[n][f]
       IN IF FieldKind(f) = "ref"
            THEN IF value = None
                   THEN EncodeFields(h, n, i + 1,
                          [attrs |-> replace(acc.attrs, f, JNull),
                           seen |-> acc.seen])
                   ELSE LET r == EncodeNode(h, value, acc.seen)
                        IN EncodeFields(h, n, i + 1,
                             [attrs |-> replace(acc.attrs, f, r.doc),
                              seen |-> r.seen])
          ELSE IF FieldKind(f) = "list"
            THEN LET r == EncodeList(h, value, 1,
                            [docs |-> <<>>, seen |-> acc.seen])
                 IN EncodeFields(h, n, i + 1,
                      [attrs |-> replace(acc.attrs, f, r.docs),
                       seen |-> r.seen])
          ELSE EncodeFields(h, n, i + 1, acc)

EncodeList(h, value, j, acc) ==
  IF j > Len(value) THEN acc
  ELSE LET r == EncodeNode(h, value[j], acc.seen)
       IN EncodeList(h, value, j + 1,
            [docs |-> Append(acc.docs, r.doc), seen |-> r.seen])

\* BaseNode.json
json(h, n) == EncodeNode(h, n, {}).doc

\* The parameters of the class's constructor.
Parameters(cls) ==
  IF cls = "SoftwareConfiguration"
    THEN {"software", "algorithms", "notes", "citation"}
  ELSE IF cls = "Algorithm" THEN {"key", "type", "parameter", "citation"}
  ELSE {"node"}

\* node = cls(**json) for the new object n: every key of the object is a
\* keyword argument.  SoftwareConfiguration raises TypeError when the
\* object lacks `software`, and when it has a key that is no parameter,
\* which **kwargs hands to BaseNode.__init__; the two other constructors
\* raise it on every object.  [attrs, err]
Construct(n, obj) ==
  LET cls == node_type(n)
      Arg(k, default) == IF k \in DOMAIN obj THEN obj[k] ELSE default
  IN IF cls = "SoftwareConfiguration"
       THEN IF "software" \notin DOMAIN obj
                 \/ ~(DOMAIN obj \subseteq Parameters(cls))
              THEN [attrs |-> JsonAttributes(cls), err |-> TypeError]
              ELSE [attrs |-> SoftwareConfigurationInit(n, obj.software,
                                Arg("algorithms", <<>>), Arg("notes", ""),
                                Arg("citation", <<>>)),
                    err |-> NoError]
     ELSE IF cls = "Algorithm"
       THEN [attrs |-> AlgorithmInit(Arg("key", ""), Arg("type", ""),
                         Arg("parameter", <<>>), Arg("citation", <<>>)).attrs,
             err |-> TypeError]
     ELSE [attrs |-> PrimaryBaseNodeInit(Arg("node", "")).attrs,
           err |-> TypeError]

\* The constructor of SoftwareConfiguration ends with self.validate().
ConstructorValidates(cls) == cls = "SoftwareConfiguration"

\* valid_keyword_dict pushed into cls.JsonAttributes(**valid_keyword_dict):
\* the value of the object for the fields it has, the class default for
\* the others.
DecodedAttrs(cls, obj) ==
  [f \in Range(Fields(cls)) |->
     IF f \in DOMAIN obj THEN obj[f] ELSE JsonAttributes(cls)[f]]

\* The heap with one more object, n, holding attrs.
Allocate(h, n, attrs) ==
  [m \in DOMAIN h \cup {n} |-> IF m = n THEN attrs ELSE h[m]]

\* BaseNode._from_json: n is the identity of the object the constructor
\* allocates; the nodes of h stay as they are.  [heap, err, validated]
_from_json(h, n, obj) ==
  LET c == Construct(n, obj)
      built == Allocate(h, n, c.attrs)
      exc == IF c.err # NoError THEN c.err
             ELSE IF ConstructorValidates(node_type(n))
               THEN validate(built, n) ELSE NoError
  IN IF exc # NoError
       THEN [heap |-> h, err |-> exc, validated |-> c.err = NoError]
       ELSE LET u == _update_json_attrs_if_valid(built, n,
                       DecodedAttrs(node_type(n), obj))
            IN [heap |-> IF u.err = NoError THEN u.heap ELSE h,
                err |-> u.err, validated |-> TRUE]

\* A reference object: the node already built for its uid, the UID error
\* when there is none.
Resolve(uid, st) ==
  IF uid \in Range(st.built)
    THEN [st |-> st, value |-> uid]
    ELSE [st |-> [st EXCEPT !.err = UIDError], value |-> None]

RECURSIVE DecodeDoc(_, _), DecodeFields(_, _, _), DecodeList(_, _, _)
\* The decoder on one JSON value, objects below it first.  st holds the
\* nodes built so far (heap), their uids in order of construction (built)
\* and the error raised; value is the node (or None) the value stands for.
DecodeDoc(doc, st) ==
  IF st.err # NoError \/ doc.kind = "null" THEN [st |-> st, value |-> None]
  ELSE IF doc.kind = "ref" THEN Resolve(doc.uid, st)
  ELSE LET r == DecodeFields(doc, 1, [obj |-> doc.attrs, st |-> st])
       IN IF r.st.err # NoError THEN [st |-> r.st, value |-> None]
          ELSE LET made == _from_json(r.st.heap, doc.uid, r.obj)
               IN [st |-> [heap |-> made.heap,
                           built |-> IF made.err = NoError
                                       THEN Append(r.st.built, doc.uid)
                                       ELSE r.st.built,
                           err |-> made.err],
                   value |-> IF made.err = NoError THEN doc.uid ELSE None]

\* The fields of a full object, from the i-th on: the object with the JSON
\* values of its reference fields replaced by the nodes they stand for.
DecodeFields(doc, i, acc) ==
  LET fs == Fields(node_type(doc.uid)) IN
  IF i > Len(fs) \/ acc.st.err # NoError THEN acc
  ELSE LET f == fs[i] IN
    IF f \notin DOMAIN doc.attrs THEN DecodeFields(doc, i + 1, acc)
    ELSE IF FieldKind(f) = "ref"
      THEN LET r == DecodeDoc(doc.attrs[f], acc.st)
           IN DecodeFields(doc, i + 1,
                [obj |-> replace(acc.obj, f, r.value), st |-> r.st])
    ELSE IF FieldKind(f) = "list"
      THEN LET r == DecodeList(doc.attrs[f], 1,
                      [values |-> <<>>, st |-> acc.st])
           IN DecodeFields(doc, i + 1,
                [obj |-> replace(acc.obj, f, r.values), st |-> r.st])
    ELSE DecodeFields(doc, i + 1, acc)

DecodeList(docs, j, acc) ==
  IF j > Len(docs) \/ acc.st.err # NoError THEN acc
  ELSE LET r == DecodeDoc(docs[j], acc.st)
       IN DecodeList(docs, j + 1,
            [values |-> Append(acc.values, r.value), st |-> r.st])

\* load_nodes_from_json(document): the decoded graph, its root and the
\* error raised.  No node exists before decoding starts.  A full object is
\* built by cls._from_json, whose cls(**json) hands the type tag `node` to
\* the constructor: a document that holds a full object, as every document
\* the encoder writes does, ends with TypeError.
load_nodes_from_json(doc) ==
  LET r == DecodeDoc(doc, [heap |-> <<>>, built |-> <<>>, err |-> NoError])
  IN [doc |-> doc, heap |-> r.st.heap, built |-> r.st.built,
      root |-> r.value, err |-> r.st.err]

RECURSIVE DropDefinition(_, _), ReverseLists(_)
\* The document with the full object of uid u replaced by a reference: a
\* document whose references to u have no definition.
DropDefinition(doc, u) ==
  IF doc.kind # "node" THEN doc
  ELSE IF doc.uid = u THEN JRef(u)
  ELSE JNode(doc.uid,
         [f \in DOMAIN doc.attrs |->
            IF FieldKind(f) = "ref" THEN DropDefinition(doc.attrs[f], u)
            ELSE IF FieldKind(f) = "list"
              THEN [j \in 1..Len(doc.attrs[f]) |->
                      DropDefinition(doc.attrs[f][j], u)]
            ELSE doc.attrs[f]])

\* The document with every list written in reverse order: a reference that
\* followed its definition in a list now precedes it.
ReverseLists(doc) ==
  IF doc.kind # "node" THEN doc
  ELSE JNode(doc.uid,
         [f \in DOMAIN doc.attrs |->
            IF FieldKind(f) = "ref" THEN ReverseLists(doc.attrs[f])
            ELSE IF FieldKind(f) = "list"
              THEN [j \in 1..Len(doc.attrs[f]) |->
                      ReverseLists(doc.attrs[f][Len(doc.attrs[f]) + 1 - j])]
            ELSE doc.attrs[f]])

\* The objects handed to _from_json, made of the record of node n: all its
\* fields, or all but some.
Objects(h, n) ==
  LET fs == Range(Fields(node_type(n))) IN
  {[f \in keys |-> h[n][f]] :
     keys \in {fs \ K : K \in {{}, {"node"}, {"citation"},
                                {"node", "citation"}, {"node", "software"}}}}

\* The documents handed to the decoder that no encoder wrote.
Documents(h, root) ==
  {DropDefinition(json(h, root), u) : u \in Graph(h, root)}
    \cup {ReverseLists(json(h, root))}

\* No document decoded.
NoDocument ==
  [doc |-> JNull, heap |-> <<>>, built |-> <<>>, root |-> None,
   err |-> NoError]

\* --------------------------------------------------------- project graph
\* One project with one collection.  The collection lists experiments and
\* inventories, an experiment lists processes, a process lists ingredients
\* (each using one material) and prerequisite processes, an inventory and
\* the project list materials.  The project has a collection of its own
\* for processes as well (project_process), which takes the orphaned
\* processes that no active experiment is given for.  Experiment 2 starts
\* outside the project (a copy of experiment 1).
Experiments == {1, 2}
Processes == {3, 4}
Materials == {5, 6}
Inventories == {7}

\* Inventory("test_inventory", material=[material])
InventoryMaterial(i) == <<5>>

\* The project graph after construction: experiment 1 in the collection,
\* nothing else listed anywhere.
ProjectInit ==
  [material |-> <<>>, project_process |-> <<>>, inventory |-> <<>>,
   experiment |-> <<1>>,
   process |-> [e \in Experiments |-> <<>>],
   ingredient |-> [q \in Processes |-> <<>>],
   prerequisite_process |-> [q \in Processes |-> <<>>]]

RECURSIVE Concat(_, _), ReachProcesses(_, _, _)
\* The lists f[k] for the keys k of a list of keys, one after the other.
Concat(f, keys) ==
  IF keys = <<>> THEN <<>> ELSE f[Head(keys)] \o Concat(f, Tail(keys))

\* The processes of the graph in the order the walk meets them: the listed
\* ones (by the experiments, then by the project), each followed by its
\* prerequisites.
ReachProcesses(h, todo, acc) ==
  IF todo = <<>> THEN acc
  ELSE IF Head(todo) \in Range(acc) THEN ReachProcesses(h, Tail(todo), acc)
  ELSE ReachProcesses(h, h.prerequisite_process[Head(todo)] \o Tail(todo),
                      Append(acc, Head(todo)))

GraphProcesses(h) ==
  ReachProcesses(h, Concat(h.process, h.experiment) \o h.project_process, <<>>)

\* The materials of the graph in the order the walk meets them.
GraphMaterials(h) ==
  h.material \o Concat([i \in Inventories |-> InventoryMaterial(i)],
                       h.inventory)
             \o Concat(h.ingredient, GraphProcesses(h))

\* The materials the project owns: its material list and the materials of
\* the inventories attached to it.
OwnedMaterials(h) ==
  Range(h.material)
    \cup UNION {Range(InventoryMaterial(i)) : i \in Range(h.inventory)}

\* The processes some experiment of the project lists, and those of the
\* project's own collection.
OwnedProcesses(h) ==
  Range(Concat(h.process, h.experiment)) \cup Range(h.project_process)

\* The elements of a list that are not in a set, in list order.
Missing(seq, owned) == SelectSeq(seq, LAMBDA x : x \notin owned)

\* A validation that reports the last orphan of the walk instead of the
\* first.
ProjectValidateLast(h) ==
  LET ms == Missing(GraphMaterials(h), OwnedMaterials(h))
      ps == Missing(GraphProcesses(h), OwnedProcesses(h))
  IN IF ps # <<>>
       THEN [err |-> OrphanedProcessError, orphaned_node |-> ps[Len(ps)]]
     ELSE IF ms # <<>>
       THEN [err |-> OrphanedMaterialError, orphaned_node |-> ms[Len(ms)]]
     ELSE [err |-> NoError, orphaned_node |-> None]

\* Project.validate(): the first orphan of one walk, materials before
\* processes.  [err, orphaned_node]
ProjectValidate(h) ==
  LET ms == Missing(GraphMaterials(h), OwnedMaterials(h))
      ps == Missing(GraphProcesses(h), OwnedProcesses(h))
  IN IF ms # <<>>
       THEN [err |-> OrphanedMaterialError, orphaned_node |-> ms[1]]
     ELSE IF ps # <<>>
       THEN [err |-> OrphanedProcessError, orphaned_node |-> ps[1]]
     ELSE [err |-> NoError, orphaned_node |-> None]

RECURSIVE RepairLoop(_, _, _, _)
\* The loop of the repair helper: validate, and on an orphan error append
\* the orphaned node to its owning collection (a process to the active
\* experiment's process list when an active experiment is given, else to
\* the project's own collection; a material to the project's material
\* list), until validation succeeds or the budget is used up.
\* [heap, err, orphaned_node, steps]
RepairLoop(h, active_experiment, budget, steps) ==
  LET v == ProjectValidate(h)
      stop == [heap |-> h, err |-> v.err, orphaned_node |-> v.orphaned_node,
               steps |-> steps]
  IN IF v.err = NoError \/ budget = 0 THEN stop
     ELSE IF v.err = OrphanedMaterialError
       THEN RepairLoop([h EXCEPT !.material = Append(@, v.orphaned_node)],
                       active_experiment, budget - 1, steps + 1)
     ELSE IF active_experiment = None
       THEN RepairLoop([h EXCEPT !.project_process = Append(@, v.orphaned_node)],
                       active_experiment, budget - 1, steps + 1)
     ELSE RepairLoop([h EXCEPT !.process[active_experiment] =
                                  Append(@, v.orphaned_node)],
                     active_experiment, budget - 1, steps + 1)

\* A helper that repairs without looking whether the active experiment
\* belongs to the project.
RepairUnchecked(h, active_experiment, max_iteration) ==
  RepairLoop(h, active_experiment, max_iteration, 0)

\* A helper that validates once and gives up.
RepairNever(h, active_experiment, max_iteration) ==
  IF active_experiment # None /\ active_experiment \notin Range(h.experiment)
    THEN [heap |-> h, err |-> RuntimeError, orphaned_node |-> None,
          steps |-> 0]
    ELSE RepairLoop(h, active_experiment, 0, 0)

\* add_orphaned_nodes_to_project(project, active_experiment, max_iteration)
add_orphaned_nodes_to_project(h, active_experiment, max_iteration) ==
  IF active_experiment # None /\ active_experiment \notin Range(h.experiment)
    THEN [heap |-> h, err |-> RuntimeError, orphaned_node |-> None,
          steps |-> 0]
    ELSE RepairLoop(h, active_experiment, max_iteration, 0)

\* ------------------------------------------------------------ the state
\* The outcome of the last operation: which handler ran on which node with
\* which argument (the field and the value of a setter, the child of
\* remove_child), the error it raised, the value it returned, and whether
\* validate() was called.
Outcome(op, n, f, arg, err, ret, validated) ==
  [op |-> op, node |-> n, field |-> f, arg |-> arg, err |-> err,
   ret |-> IF err # NoError THEN "raise" ELSE ret, validated |-> validated,
   depth |-> 0, found |-> <<>>, evals |-> <<>>, dec |-> NoDocument]

\* The outcome of root.find_children(search_attr, search_depth).
SearchOutcome(root, search_attr, search_depth, r) ==
  [op |-> "find_children", node |-> root, field |-> "", arg |-> search_attr,
   err |-> NoError, ret |-> "list", validated |-> FALSE,
   depth |-> search_depth, found |-> r.found, evals |-> r.evals,
   dec |-> NoDocument]

\* The outcome of load_nodes_from_json(root.json).
LoadOutcome(root, d) ==
  [Outcome("load_nodes_from_json", root, "", None, d.err, "node", FALSE)
     EXCEPT !.dec = d]

\* The list fields of a class.
ListFields(cls) == {f \in Range(Fields(cls)) : FieldKind(f) = "list"}

\* The caller's list is stored by nothing and is empty.
NoList == [lst |-> <<>>, held |-> {}]

\* Field f of node n has been given a list object of its own.
Release(c, n, fs) == [c EXCEPT !.held = @ \ {<<n, f>> : f \in fs}]

\* replace(self._json_attrs, f=lst): the record holds the list it is given,
\* not a copy of it.
Store(c, n, f) == [c EXCEPT !.held = @ \cup {<<n, f>>}]

\* What a setter call does to the caller's list: a record that stays in
\* place holds the list passed (own) or a list of its own, a record that
\* was restored holds what it held before.
AfterSet(c, n, f, own, stored) ==
  IF ~stored \/ FieldKind(f) # "list" THEN c
  ELSE IF own THEN Store(c, n, f) ELSE Release(c, n, {f})

\* Four nodes built by SoftwareConfiguration(None): the constructor makes
\* the two lists itself, none refers to another node.
Init ==
  /\ heap = [n \in SCNodes |->
               SoftwareConfigurationInit(n, None, <<>>, "", <<>>)]
  /\ last = Outcome("init", None, "", None, NoError, "None", FALSE)
  /\ caller = NoList

\* As Init, node 1 being built by SoftwareConfiguration(None, lst) with the
\* caller's empty list lst: the record holds lst.
InitAlias ==
  /\ heap = [n \in SCNodes |->
               SoftwareConfigurationInit(n, None,
                 IF n = 1 THEN NoList.lst ELSE <<>>, "", <<>>)]
  /\ last = Outcome("init", None, "", None, NoError, "None", FALSE)
  /\ caller = Store(NoList, 1, "algorithms")

\* As Init, with one instance of Algorithm and one of PrimaryBaseNode that
\* no constructor returned: each is allocated by cls.__new__(cls) and
\* initialised by BaseNode.__init__(obj), which sets its type tag.
InitBare ==
  /\ heap = [n \in Nodes |->
               IF n \in SCNodes
                 THEN SoftwareConfigurationInit(n, None, <<>>, "", <<>>)
                 ELSE BaseNodeInit(n)]
  /\ last = Outcome("init", None, "", None, NoError, "None", FALSE)
  /\ caller = NoList

\* ------------------------------------------------------------- actions
\* Algorithm(key, type, parameter, citation)
NewAlgorithm(key, type, parameter, citation) ==
  /\ heap' = heap
  /\ caller' = caller
  /\ last' = Outcome("Algorithm", None, "", key,
                     AlgorithmInit(key, type, parameter, citation).err,
                     "node", FALSE)

\* PrimaryBaseNode(node)
NewPrimaryBaseNode(node) ==
  /\ heap' = heap
  /\ caller' = caller
  /\ last' = Outcome("PrimaryBaseNode", None, "", node,
                     PrimaryBaseNodeInit(node).err, "node", FALSE)

\* a.key = v, a.type = v, a.parameter = v, a.citation = v; own: v is the
\* caller's list lst itself.
AlgorithmSetter(n, f, v, own) ==
  LET r == AlgorithmSet(heap, n, f, v) IN
  /\ own => FieldKind(f) = "list" /\ v = caller.lst
  /\ heap' = r.heap
  /\ caller' = AfterSet(caller, n, f, own, TRUE)
  /\ last' = Outcome("Algorithm.setter", n, f, v, r.err, "None", TRUE)

\* s.software = v, s.algorithms = v, s.notes = v, s.citation = v; own: v is
\* the caller's list lst itself.
SoftwareConfigurationSetter(n, f, v, own) ==
  LET r == SoftwareConfigurationSet(heap, n, f, v) IN
  /\ own => FieldKind(f) = "list" /\ v = caller.lst
  /\ heap' = r.heap
  /\ caller' = AfterSet(caller, n, f, own, r.err = NoError)
  /\ last' = Outcome("SoftwareConfiguration.setter", n, f, v, r.err, "None",
                     TRUE)

\* node._update_json_attrs_if_valid(replace(node._json_attrs, f=v)) on a
\* primary node, f being one of its singular fields.
UpdateJsonAttrs(n, f, v) ==
  LET r == _update_json_attrs_if_valid(heap, n, replace(heap[n], f, v)) IN
  /\ heap' = r.heap
  /\ caller' = caller
  /\ last' = Outcome("_update_json_attrs_if_valid", n, f, v, r.err, "None",
                     TRUE)

\* n.remove_child(child): the list the child was deleted from is a new
\* list.
RemoveChild(n, child) ==
  LET r == remove_child(heap, n, child) IN
  /\ heap' = r.heap
  /\ caller' = Release(caller, n,
                 {f \in ListFields(node_type(n)) : r.heap[n][f] # heap[n][f]})
  /\ last' = Outcome("remove_child", n, "", child, r.err, r.ret, r.validated)

\* n.validate()
Validate(n) ==
  /\ heap' = heap
  /\ caller' = caller
  /\ last' = Outcome("validate", n, "", None, validate(heap, n), "None", TRUE)

\* root.find_children(search_attr, search_depth).  A search changes no
\* node, so one that follows another search reaches nothing new: searches
\* are taken from the states the other operations leave.
FindChildren(root, search_attr, search_depth) ==
  /\ last.op # "find_children"
  /\ heap' = heap
  /\ caller' = caller
  /\ last' = SearchOutcome(root, search_attr, search_depth,
               find_children(heap, root, search_attr, search_depth,
                 [found |-> <<>>, handled |-> <<>>, evals |-> <<>>]))

\* load_nodes_from_json(root.json).  Decoding changes no node of the
\* graph, so it is taken from the states the other operations leave.
LoadNodesFromJson(root) ==
  /\ last.op \notin {"load_nodes_from_json", "load_document", "_from_json"}
  /\ heap' = heap
  /\ caller' = caller
  /\ last' = LoadOutcome(root, load_nodes_from_json(json(heap, root)))

\* cls._from_json(obj), cls being the class of n, the identity of the
\* object the call allocates; the node values of obj are nodes of the
\* graph.  The outcome holds the object and, when a node is returned, the
\* graph with that node added to it.
FromJson(n, obj) ==
  LET r == _from_json(heap, n, obj)
  IN /\ last.op \notin {"load_nodes_from_json", "load_document", "_from_json"}
     /\ heap' = heap
     /\ caller' = caller
     /\ last' = [LoadOutcome(n, [doc |-> JNode(n, obj), heap |-> r.heap,
                                 built |-> IF r.err = NoError THEN <<n>>
                                           ELSE <<>>,
                                 root |-> IF r.err = NoError THEN n ELSE None,
                                 err |-> r.err])
                  EXCEPT !.op = "_from_json", !.validated = r.validated]

\* load_nodes_from_json(document) for a document written by hand.
LoadDocument(doc) ==
  /\ last.op \notin {"load_nodes_from_json", "load_document", "_from_json"}
  /\ heap' = heap
  /\ caller' = caller
  /\ last' = [LoadOutcome(None, load_nodes_from_json(doc))
               EXCEPT !.op = "load_document"]

\* The list object held by field f of node n is the caller's list lst: it
\* was passed to the constructor or to the setter of f, and the record has
\* not been given another list for f since.
Aliased(n, f) == <<n, f>> \in caller.held

\* lst.append(x) on the caller's list: every record that holds lst sees the
\* new element, nothing is validated.  The guard is the bound on the
\* length of a list, not a condition of the code.
AppendToPassedList(x) ==
  /\ Len(caller.lst) < MaxLen
  /\ caller' = [caller EXCEPT !.lst = Append(@, x)]
  /\ heap' = [n \in DOMAIN heap |->
                [f \in DOMAIN heap[n] |->
                   IF Aliased(n, f) THEN Append(caller.lst, x)
                   ELSE heap[n][f]]]
  /\ last' = Outcome("list.append", None, "", x, NoError, "None", FALSE)

\* c = n.f; c.append(x): the getter returned a copy.
AppendToReturnedList(n, f, x) ==
  /\ FieldKind(f) = "list"
  /\ f \in Range(Fields(node_type(n)))
  /\ heap' = heap
  /\ caller' = caller
  /\ last' = Outcome("copy.append", n, f, x, NoError, "None", FALSE)

\* ------------------------------------------------- project graph actions
\* The outcome of an operation on the project graph: the orphaned node the
\* error carries and the number of repair steps taken.
ProjectOutcome(op, n, f, arg, r) ==
  [Outcome(op, n, f, arg, r.err, "None", TRUE)
     EXCEPT !.found = <<r.orphaned_node>>, !.depth = r.steps]

Accepted == [err |-> NoError, orphaned_node |-> None, steps |-> 0]

InitProject ==
  /\ heap = ProjectInit
  /\ caller = NoList
  /\ last = Outcome("init", None, "", None, NoError, "None", FALSE)

\* experiment.process += [q]: the setter validates the experiment, which
\* has no orphan check of its own.
AddProcess(e, q) ==
  /\ q \notin Range(heap.process[e])
  /\ heap' = [heap EXCEPT !.process[e] = Append(@, q)]
  /\ caller' = caller
  /\ last' = ProjectOutcome("Experiment.process", e, "process", q, Accepted)

\* process.ingredient += [Ingredient(material=m)]
AddIngredient(q, m) ==
  /\ m \notin Range(heap.ingredient[q])
  /\ heap' = [heap EXCEPT !.ingredient[q] = Append(@, m)]
  /\ caller' = caller
  /\ last' = ProjectOutcome("Process.ingredient", q, "ingredient", m,
                            Accepted)

\* process.prerequisite_process += [q2]
AddPrerequisite(q, q2) ==
  /\ q2 \notin Range(heap.prerequisite_process[q])
  /\ heap' = [heap EXCEPT !.prerequisite_process[q] = Append(@, q2)]
  /\ caller' = caller
  /\ last' = ProjectOutcome("Process.prerequisite_process", q,
                            "prerequisite_process", q2, Accepted)

\* collection.inventory = v
SetInventory(v) ==
  /\ heap' = [heap EXCEPT !.inventory = v]
  /\ caller' = caller
  /\ last' = ProjectOutcome("Collection.inventory", None, "inventory", v,
                            Accepted)

\* collection.experiment += [e]
AddExperiment(e) ==
  /\ e \notin Range(heap.experiment)
  /\ heap' = [heap EXCEPT !.experiment = Append(@, e)]
  /\ caller' = caller
  /\ last' = ProjectOutcome("Collection.experiment", None, "experiment", e,
                            Accepted)

\* project.material = v: the project's setter validates the project and
\* restores the old list when validation refuses the new one.
SetMaterial(v) ==
  LET cand == [heap EXCEPT !.material = v]
      r == ProjectValidate(cand)
  IN /\ heap' = IF r.err = NoError THEN cand ELSE heap
     /\ caller' = caller
     /\ last' = ProjectOutcome("Project.material", None, "material", v,
                  [err |-> r.err, orphaned_node |-> r.orphaned_node,
                   steps |-> 0])

\* project.validate()
ValidateProject ==
  LET r == ProjectValidate(heap)
  IN /\ heap' = heap
     /\ caller' = caller
     /\ last' = ProjectOutcome("Project.validate", None, "", None,
                  [err |-> r.err, orphaned_node |-> r.orphaned_node,
                   steps |-> 0])

\* add_orphaned_nodes_to_project(project, active_experiment, max_iteration)
AddOrphanedNodesToProject(active_experiment, max_iteration) ==
  LET r == add_orphaned_nodes_to_project(heap, active_experiment,
                                         max_iteration)
  IN /\ heap' = r.heap
     /\ caller' = caller
     /\ last' = ProjectOutcome("add_orphaned_nodes_to_project",
                  active_experiment, "", max_iteration, r)

\* ------------------------------------------------- inputs of the actions
KeyVals == {"k1", BadStr}
TypeVals == {"t"}
NotesVals == {"", BadStr}

\* The lists a caller hands to a list setter: the empty list, and the
\* getter's copy with one more element (x.field += [e]).
ListInputs(cur, S) ==
  {<<>>} \cup {Append(cur, e) : e \in {x \in S : Len(cur) < MaxLen}}

\* Graphs of SoftwareConfiguration nodes, built by the setters.
Next ==
  \/ \E v \in {None, 2, 3} : SoftwareConfigurationSetter(1, "software", v, FALSE)
  \/ \E v \in {None, 1} : SoftwareConfigurationSetter(2, "software", v, FALSE)
  \/ \E v \in ListInputs(heap[1].algorithms, {2, 3}) :
       SoftwareConfigurationSetter(1, "algorithms", v, FALSE)
  \/ \E v \in {<<>>, <<1>>} :
       SoftwareConfigurationSetter(2, "algorithms", v, FALSE)
  \/ \E v \in NotesVals : SoftwareConfigurationSetter(1, "notes", v, FALSE)
  \/ \E v \in {<<>>, <<2>>} :
       SoftwareConfigurationSetter(1, "citation", v, FALSE)
  \/ \E n \in {1, 2} : \E child \in {1, 2, 3} \ {n} : RemoveChild(n, child)
  \/ \E n \in {1, 2, 3} : Validate(n)
  \/ \E key \in KeyVals : \E type \in TypeVals :
       \E parameter \in {<<>>, <<1>>} : NewAlgorithm(key, type, parameter, <<>>)
  \/ NewPrimaryBaseNode("PrimaryBaseNode")

Spec == Init /\ [][Next]_vars

\* The setters of Algorithm and the singular fields of a primary node, on
\* instances that no constructor returned.
NextBare ==
  \/ \E v \in KeyVals : AlgorithmSetter(5, "key", v, FALSE)
  \/ \E v \in TypeVals : AlgorithmSetter(5, "type", v, FALSE)
  \/ \E v \in {<<>>, <<6>>} : AlgorithmSetter(5, "parameter", v, FALSE)
  \/ \E v \in {<<>>, <<1>>} : AlgorithmSetter(5, "citation", v, FALSE)
  \/ \E v \in {None, 6} : SoftwareConfigurationSetter(1, "software", v, FALSE)
  \/ \E v \in ListInputs(heap[1].algorithms, AlgNodes) :
       SoftwareConfigurationSetter(1, "algorithms", v, FALSE)
  \/ \E v \in NotesVals : SoftwareConfigurationSetter(1, "notes", v, FALSE)
  \/ \E f \in {"updated_by", "created_by"}, v \in {None, 1} :
       UpdateJsonAttrs(6, f, v)
  \/ \E n \in {1, 5} : \E child \in {1, 5, 6} \ {n} : RemoveChild(n, child)
  \/ \E n \in {1, 5, 6} : Validate(n)

SpecBare == InitBare /\ [][NextBare]_vars

\* Searches on the graphs built by the list setters.
SearchAttrs ==
  { <<>>,
    <<Entry("node", <<Plain("SoftwareConfiguration")>>)>>,
    <<Entry("notes", <<Plain("k2")>>)>>,
    <<Entry("node", <<Plain("SoftwareConfiguration")>>),
      Entry("notes", <<Plain("k1")>>)>>,
    <<Entry("algorithms", <<Dict(<<Entry("notes", <<Plain("k2")>>)>>)>>)>>,
    <<Entry("algorithms", <<Dict(<<Entry("notes", <<Plain("k2")>>)>>),
                            Dict(<<Entry("notes", <<Plain("k1")>>)>>)>>)>>,
    <<Entry("algorithms",
            <<Dict(<<Entry("notes", <<Plain("k1")>>)>>),
              Dict(<<Entry("node", <<Plain("SoftwareConfiguration")>>)>>)>>)>>,
    <<Entry("algorithms",
            <<Dict(<<Entry("notes", <<Plain("k1")>>)>>),
              Dict(<<Entry("node", <<Plain("SoftwareConfiguration")>>)>>),
              Dict(<<Entry("foo", <<Plain("bar")>>)>>)>>)>>,
    <<Entry("algorithms", <<Dict(<<>>),
                            Dict(<<Entry("notes", <<Plain("k2")>>)>>)>>)>> }

SearchDepths == (-1)..MaxDepth

NextFind ==
  \/ \E n \in {2, 4} : \E v \in {"k1", "k2"} :
       SoftwareConfigurationSetter(n, "notes", v, FALSE)
  \/ \E v \in {<<>>, <<2>>, <<2, 3>>} :
       SoftwareConfigurationSetter(1, "algorithms", v, FALSE)
  \/ \E v \in {<<>>, <<3>>} :
       SoftwareConfigurationSetter(2, "algorithms", v, FALSE)
  \/ \E v \in {<<>>, <<4>>, <<2, 4>>} :
       SoftwareConfigurationSetter(3, "algorithms", v, FALSE)
  \/ \E v \in {<<>>, <<1>>} :
       SoftwareConfigurationSetter(2, "citation", v, FALSE)
  \/ \E root \in SCNodes : \E search_attr \in SearchAttrs :
       \E search_depth \in SearchDepths :
         FindChildren(root, search_attr, search_depth)

SpecFind == Init /\ [][NextFind]_vars

\* The objects handed to Algorithm._from_json and to
\* PrimaryBaseNode._from_json.
AlgorithmObjects ==
  {[key |-> "k1", type |-> "t"],
   [key |-> "k1", type |-> "t", parameter |-> <<>>, citation |-> <<>>],
   [node |-> TagList(<<"Algorithm">>), key |-> "k1", type |-> "t",
    parameter |-> <<>>, citation |-> <<>>],
   [key |-> "k1"]}

PrimaryObjects ==
  {[node |-> TagList(<<"PrimaryBaseNode">>)],
   [node |-> TagList(<<"PrimaryBaseNode">>), name |-> "k1"]}

\* Decoding the documents of the graphs built by the setters.
NextCodec ==
  \/ \E v \in {"", "k1"} : SoftwareConfigurationSetter(3, "notes", v, FALSE)
  \/ \E v \in {None, 4} : SoftwareConfigurationSetter(1, "software", v, FALSE)
  \/ \E v \in {<<>>, <<2>>, <<2, 3>>} :
       SoftwareConfigurationSetter(1, "algorithms", v, FALSE)
  \/ \E v \in {<<>>, <<3>>, <<3, 3>>} :
       SoftwareConfigurationSetter(2, "algorithms", v, FALSE)
  \/ \E v \in {<<>>, <<4>>, <<1>>} :
       SoftwareConfigurationSetter(2, "citation", v, FALSE)
  \/ \E v \in {<<>>, <<3>>} :
       SoftwareConfigurationSetter(1, "citation", v, FALSE)
  \/ \E root \in SCNodes : LoadNodesFromJson(root)
  \/ \E root \in SCNodes : \E doc \in Documents(heap, root) : LoadDocument(doc)
  \/ \E m \in {1, 2} : \E obj \in Objects(heap, m) : FromJson(NewSC, obj)
  \/ \E obj \in AlgorithmObjects : FromJson(NewAlg, obj)
  \/ \E obj \in PrimaryObjects : FromJson(NewPrim, obj)

SpecCodec == Init /\ [][NextCodec]_vars

\* The project graph: building it, validating it, repairing it.
NextProject ==
  \/ \E e \in {1} : \E q \in Processes : AddProcess(e, q)
  \/ AddProcess(2, 4)
  \/ \E m \in Materials : AddIngredient(3, m)
  \/ AddIngredient(4, 6)
  \/ AddPrerequisite(3, 4)
  \/ \E v \in {<<>>, <<7>>} : SetInventory(v)
  \/ AddExperiment(2)
  \/ \E v \in {<<>>} \cup
            {Append(heap.material, m) :
               m \in {x \in Materials : x \notin Range(heap.material)}} :
       SetMaterial(v)
  \/ ValidateProject
  \/ \E active_experiment \in {None} \cup Experiments :
       \E max_iteration \in 0..MaxIteration :
         AddOrphanedNodesToProject(active_experiment, max_iteration)

SpecProject == InitProject /\ [][NextProject]_vars

\* Lists handed to the constructor and to setters, lists returned by
\* getters, and what the caller does to them afterwards.
NextAlias ==
  \/ \E n \in {1, 2} : \E f \in {"algorithms", "citation"} :
       SoftwareConfigurationSetter(n, f, caller.lst, TRUE)
  \/ \E v \in ListInputs(heap[1].algorithms, {2, 3}) :
       SoftwareConfigurationSetter(1, "algorithms", v, FALSE)
  \/ \E v \in NotesVals : SoftwareConfigurationSetter(1, "notes", v, FALSE)
  \/ \E child \in {2, 3} : RemoveChild(1, child)
  \/ \E x \in {2, 3} : AppendToPassedList(x)
  \/ \E n \in {1, 2} : \E f \in {"algorithms", "citation"} :
       AppendToReturnedList(n, f, 3)

SpecAlias == InitAlias /\ [][NextAlias]_vars

\* ---------------------------------------------------------------- claims
ValidationErrors == {SchemaError, CycleError}
ProtocolOps ==
  {"SoftwareConfiguration.setter", "_update_json_attrs_if_valid",
   "remove_child"}
SetterOps == {"Algorithm.setter", "SoftwareConfiguration.setter"}

\* The candidate record the step into `after` (the new value of last)
\* handed to _update_json_attrs_if_valid, computed on the heap before it.
Candidate(h, after) ==
  IF after.op = "remove_child"
    THEN RemoveLoop(h[after.node], node_type(after.node), after.arg, 1,
           [attrs |-> h[after.node], changed |-> FALSE, err |-> NoError]).attrs
    ELSE replace(h[after.node], after.field, after.arg)

\* child is the value of no singular field and an element of no list field.
Absent(attrs, cls, child) ==
  \A f \in Range(Fields(cls)) :
    /\ FieldKind(f) = "ref" => attrs[f] # child
    /\ FieldKind(f) = "list" => child \notin Range(attrs[f])

\* The list without its first occurrence of child.
RemoveFirst(lst, child) ==
  LET i == CHOOSE k \in 1..Len(lst) :
             lst[k] = child /\ \A j \in 1..(k - 1) : lst[j] # child
  IN SubSeq(lst, 1, i - 1) \o SubSeq(lst, i + 1, Len(lst))

\* The first list field, in declaration order, that contains child.
FirstListWith(attrs, cls, child) ==
  LET fs == Fields(cls)
      i == CHOOSE k \in 1..Len(fs) :
             /\ FieldKind(fs[k]) = "list" /\ child \in Range(attrs[fs[k]])
             /\ \A j \in 1..(k - 1) :
                  ~(FieldKind(fs[j]) = "list" /\ child \in Range(attrs[fs[j]]))
  IN fs[i]

\* C1: every step that installs a candidate record through
\* _update_json_attrs_if_valid (a SoftwareConfiguration setter, a direct
\* call, remove_child) raises exactly the error validate() raises on the
\* graph with the candidate installed; when it raises, the node's record is
\* the one from before the call, and when it does not, the record is the
\* candidate.
C1_ReplaceAndRollback ==
  [][(last'.op \in ProtocolOps /\ last'.validated) =>
       LET n == last'.node
           cand == Candidate(heap, last')
       IN /\ last'.err = validate([heap EXCEPT ![n] = cand], n)
          /\ last'.err # NoError => heap' = heap
          /\ last'.err = NoError => heap' = [heap EXCEPT ![n] = cand]]_vars

\* A setter whose candidate closed a cycle through `software` was rolled
\* back: the node refers to nothing, as before the call.
C1_Witness ==
  /\ last.op = "SoftwareConfiguration.setter"
  /\ last.validated
  /\ last.err = CycleError
  /\ heap[last.node].software = None
  /\ heap[last.arg].software = last.node

\* C2: a setter of Algorithm or of SoftwareConfiguration that ends with a
\* validation error leaves the node's field values as they were before the
\* call.
C2_RejectedSetterRestores ==
  [][(last'.op \in SetterOps /\ last'.err \in ValidationErrors) =>
       heap'[last'.node] = heap[last'.node]]_vars

\* C3: remove_child(child) on a node with a list field containing child
\* (child being the value of no singular field) raises nothing but a
\* validation error, and when validation passes it returns True and the
\* first list field containing child has lost exactly its first occurrence
\* of child, everything else being kept.
C3_RemoveChildRemovesFirstOccurrence ==
  [][(/\ last'.op = "remove_child"
      /\ ~Absent(heap[last'.node], node_type(last'.node), last'.arg)
      /\ \A f \in Range(Fields(node_type(last'.node))) :
           FieldKind(f) = "ref" => heap[last'.node][f] # last'.arg) =>
       LET n == last'.node
           f == FirstListWith(heap[n], node_type(n), last'.arg)
       IN /\ last'.err \in ValidationErrors \cup {NoError}
          /\ last'.err = NoError =>
               /\ last'.ret = "True"
               /\ heap' = [heap EXCEPT ![n] =
                    replace(heap[n], f, RemoveFirst(heap[n][f], last'.arg))]]_vars

\* C4: remove_child(child) on a node none of whose fields is or contains
\* the child returns False, raises nothing, does not call validate() and
\* leaves the heap as it was; identity decides, not equality of records.
C4_RemoveAbsentChild ==
  [][(/\ last'.op = "remove_child"
      /\ Absent(heap[last'.node], node_type(last'.node), last'.arg)) =>
       /\ last'.ret = "False"
       /\ last'.err = NoError
       /\ ~last'.validated
       /\ heap' = heap]_vars

\* remove_child(child) returned False on a node that holds, in a list, a
\* different instance whose record equals the child's record.
C4_Witness ==
  /\ last.op = "remove_child"
  /\ last.ret = "False"
  /\ \E f \in Range(Fields(node_type(last.node))) :
       /\ FieldKind(f) = "list"
       /\ \E m \in Range(heap[last.node][f]) :
            /\ m # last.arg
            /\ node_type(m) = node_type(last.arg)
            /\ heap[m] = heap[last.arg]

\* The graph validate() ran on in the step into `after`: the heap of before
\* the step with the step's candidate record installed.
Validated(h, after) ==
  IF after.op = "validate" THEN h
  ELSE [h EXCEPT ![after.node] = Candidate(h, after)]

\* C8: validate() on a node that is reachable from itself through
\* reference-valued fields, singular or list-valued, raises the cycle error
\* (the schema service accepting the document).
C8_CycleRaisesCycleError ==
  (/\ last.op = "validate"
   /\ SelfReachable(heap, last.node)
   /\ _is_node_schema_valid(heap, last.node)) =>
    last.err = CycleError

\* C9: validate() raises the cycle error only on a graph in which some node
\* is reachable from itself; a node with two parents is no cycle.
C9_CycleErrorOnlyOnCycle ==
  [][(last'.validated /\ last'.err = CycleError) =>
       \E m \in Graph(Validated(heap, last'), last'.node) :
         SelfReachable(Validated(heap, last'), m)]_vars

\* ------------------------------------------------ claims on find_children
NoDuplicates(seq) == \A i, j \in 1..Len(seq) : seq[i] = seq[j] => i = j

RECURSIVE Satisfies(_, _, _)
\* The node satisfies the criterion: for every key, every requested value
\* is met by the field, a string by being (an element of) it, a dictionary
\* by some node of the field that satisfies the dictionary.
Satisfies(h, m, search_attr) ==
  \A i \in 1..Len(search_attr) :
    \A j \in 1..Len(search_attr[i].vals) :
      LET v == search_attr[i].vals[j]
          key == search_attr[i].key
      IN IF v.kind = "plain"
           THEN v.s \in PlainElems(h[m], node_type(m), key)
           ELSE \E c \in Range(NodeElems(h[m], node_type(m), key)) :
                  Satisfies(h, c, v.d)

RECURSIVE Within(_, _, _)
\* The nodes at most k reference steps away from the nodes of S.
Within(h, S, k) ==
  IF k = 0 THEN S
  ELSE Within(h, S \cup UNION {Children(h, m) : m \in S}, k - 1)

\* C5: a call of find_children ends with a result; it evaluates the
\* criterion on no node twice and its result holds no node twice, on graphs
\* with cycles and with shared nodes alike.
C5_FindVisitsOnce ==
  last.op = "find_children" =>
    /\ last.ret = "list"
    /\ NoDuplicates(last.evals)
    /\ NoDuplicates(last.found)
    /\ Range(last.found) \subseteq Range(last.evals)

\* An unbounded search from a node that lies on a cycle, in a graph where
\* some node has two parents, that found three nodes or more.
C5_Witness ==
  /\ last.op = "find_children"
  /\ last.depth < 0
  /\ SelfReachable(heap, last.node)
  /\ \E m \in Graph(heap, last.node) :
       Cardinality({q \in Graph(heap, last.node) : m \in Children(heap, q)}) > 1
  /\ Len(last.found) > 2

\* C6: with a negative depth find_children returns exactly the nodes of the
\* graph rooted at the receiver (the receiver included) that satisfy every
\* key of the criterion.
C6_FindUnbounded ==
  (last.op = "find_children" /\ last.depth < 0) =>
    Range(last.found) =
      {m \in Graph(heap, last.node) : Satisfies(heap, m, last.arg)}

\* An unbounded search with two keys that found a node below the receiver
\* and left out a reachable node that meets the first key only.
C6_Witness ==
  /\ last.op = "find_children"
  /\ last.depth < 0
  /\ Len(last.arg) > 1
  /\ \E m \in Range(last.found) : m # last.node
  /\ \E m \in Graph(heap, last.node) \ Range(last.found) :
       Satisfies(heap, m, <<last.arg[1]>>)

\* C7: with depth N >= 0 find_children returns exactly the nodes that
\* satisfy the criterion and lie at most N reference steps from the
\* receiver along some path.
C7_FindDepth ==
  (last.op = "find_children" /\ last.depth >= 0) =>
    Range(last.found) =
      {m \in Within(heap, {last.node}, last.depth) :
         Satisfies(heap, m, last.arg)}

\* ------------------------------------------------------- claims on the codec
\* A valid graph: validate() accepts it and no node of it lies on a cycle.
ValidGraph(h, n) ==
  /\ validate(h, n) = NoError
  /\ \A m \in Graph(h, n) : ~SelfReachable(h, m)

\* C10: decoding the condensed document of a valid graph raises nothing,
\* builds one node per uid of the graph with the field values of the
\* original, and the decoded root's document equals the document decoded.
C10_CondensedRoundTrip ==
  (last.op = "load_nodes_from_json" /\ ValidGraph(heap, last.node)) =>
    /\ last.dec.err = NoError
    /\ last.dec.root = last.node
    /\ json(last.dec.heap, last.dec.root) = json(heap, last.node)
    /\ NoDuplicates(last.dec.built)
    /\ Range(last.dec.built) = Graph(heap, last.node)
    /\ \A m \in Graph(heap, last.node) : last.dec.heap[m] = heap[m]

RECURSIVE Tokens(_), ListTokens(_, _), FieldTokens(_, _)
\* The objects of a document in the order they are written: <<kind, uid>>
\* for every full object and every reference object.
Tokens(doc) ==
  IF doc.kind = "null" THEN <<>>
  ELSE IF doc.kind = "ref" THEN << <<"ref", doc.uid>> >>
  ELSE << <<"node", doc.uid>> >> \o FieldTokens(doc, 1)

FieldTokens(doc, i) ==
  LET fs == Fields(node_type(doc.uid)) IN
  IF i > Len(fs) THEN <<>>
  ELSE (IF FieldKind(fs[i]) = "ref" THEN Tokens(doc.attrs[fs[i]])
        ELSE IF FieldKind(fs[i]) = "list" THEN ListTokens(doc.attrs[fs[i]], 1)
        ELSE <<>>) \o FieldTokens(doc, i + 1)

ListTokens(docs, j) ==
  IF j > Len(docs) THEN <<>>
  ELSE Tokens(docs[j]) \o ListTokens(docs, j + 1)

\* Reference objects of the document whose uid no full object written
\* before them defines.
Undefined(doc) ==
  LET t == Tokens(doc) IN
  {i \in 1..Len(t) :
     /\ t[i][1] = "ref"
     /\ ~\E j \in 1..(i - 1) : t[j] = <<"node", t[i][2]>>}

\* C11: decoding a document with a reference object that no earlier full
\* object defines fails with the UID deserialization error and returns no
\* graph.
C11_UnresolvedReferenceFails ==
  (last.op = "load_document" /\ Undefined(last.dec.doc) # {}) =>
    /\ last.dec.err = UIDError
    /\ last.dec.root = None

\* ------------------------------------------------ claims on the project
\* The materials used by an ingredient of a process that an experiment of
\* the project lists.
UsedMaterials(h) ==
  {m \in Materials :
     \E e \in Range(h.experiment) : \E q \in Range(h.process[e]) :
       m \in Range(h.ingredient[q])}

\* The processes that a listed process needs, directly or not, and that no
\* experiment of the project lists.
OrphanedProcesses(h) == Range(GraphProcesses(h)) \ OwnedProcesses(h)

\* C12: project.validate() raises the orphaned-material error, carrying
\* one material the project does not own, whenever a used material is in
\* neither the project's material list nor an attached inventory; when
\* every material of the graph is owned it raises no orphaned-material
\* error, and no error at all unless a process is orphaned.  One pass
\* reports one node.
C12_OrphanedMaterialDetected ==
  last.op = "Project.validate" =>
    /\ Len(last.found) = 1
    /\ UsedMaterials(heap) \ OwnedMaterials(heap) # {} =>
         /\ last.err = OrphanedMaterialError
         /\ last.found[1] \in Range(GraphMaterials(heap)) \ OwnedMaterials(heap)
    /\ Range(GraphMaterials(heap)) \subseteq OwnedMaterials(heap) =>
         /\ last.err # OrphanedMaterialError
         /\ OrphanedProcesses(heap) = {} => last.err = NoError

\* Validation failed on material 5 with no inventory attached, while a
\* second material and a process are orphaned as well.
C12_Witness ==
  /\ last.op = "Project.validate"
  /\ last.err = OrphanedMaterialError
  /\ last.found = <<5>>
  /\ heap.inventory = <<>>
  /\ 6 \in UsedMaterials(heap) \ OwnedMaterials(heap)
  /\ OrphanedProcesses(heap) # {}

\* The orphans of the project graph, of either kind.
Orphans(h) ==
  (Range(GraphMaterials(h)) \ OwnedMaterials(h)) \cup OrphanedProcesses(h)

\* List `after` is list `before` followed by elements of S.
Extends(before, after, S) ==
  /\ Len(after) >= Len(before)
  /\ SubSeq(after, 1, Len(before)) = before
  /\ \A i \in (Len(before) + 1)..Len(after) : after[i] \in S

\* C13: a call of the repair helper with an active experiment of the
\* project (or none) takes at most max_iteration repair steps, each one
\* appending an orphan to its owning collection (a process to the active
\* experiment's process list, or to the project's own collection when no
\* active experiment is given; a material to the project's material list)
\* and changing nothing else; when it returns normally the project
\* validates; it fails only with the budget used up, and then with the
\* error validation still raises; with at most max_iteration orphans it
\* returns normally.
C13_RepairLoop ==
  [][(last'.op = "add_orphaned_nodes_to_project"
       /\ last'.err # RuntimeError) =>
      /\ last'.depth <= last'.arg
      /\ Extends(heap.material, heap'.material, Orphans(heap))
      /\ \A e \in Experiments :
           IF e = last'.node
             THEN Extends(heap.process[e], heap'.process[e], Orphans(heap))
             ELSE heap'.process[e] = heap.process[e]
      /\ IF last'.node = None
           THEN Extends(heap.project_process, heap'.project_process,
                        Orphans(heap))
           ELSE heap'.project_process = heap.project_process
      /\ (Len(heap'.material) - Len(heap.material))
           + (Len(heap'.project_process) - Len(heap.project_process))
           + (IF last'.node = None THEN 0
              ELSE Len(heap'.process[last'.node])
                     - Len(heap.process[last'.node])) = last'.depth
      /\ [heap' EXCEPT !.material = <<>>, !.process = <<>>,
                       !.project_process = <<>>]
           = [heap EXCEPT !.material = <<>>, !.process = <<>>,
                          !.project_process = <<>>]
      /\ last'.err = NoError => ProjectValidate(heap').err = NoError
      /\ last'.err # NoError =>
           /\ ProjectValidate(heap').err = last'.err
           /\ ProjectValidate(heap').orphaned_node = last'.found[1]
           /\ last'.depth = last'.arg
      /\ Cardinality(Orphans(heap)) <= last'.arg => last'.err = NoError
    ]_vars

\* The helper, called with no active experiment, returned normally after
\* two repair steps: an orphaned material went to the project's material
\* list and an orphaned prerequisite process to the project's own
\* collection.
C13_Witness ==
  /\ last.op = "add_orphaned_nodes_to_project"
  /\ last.err = NoError
  /\ last.node = None
  /\ last.depth = 2
  /\ heap.project_process = <<4>>
  /\ 4 \in Range(heap.prerequisite_process[3])
  /\ heap.material # <<>>

\* C14: a call of the repair helper whose active experiment is not one of
\* the project's experiments raises RuntimeError, takes no repair step and
\* leaves the project graph, and so what validation says of it, unchanged;
\* RuntimeError is raised in no other case.
C14_RepairUsageError ==
  [][last'.op = "add_orphaned_nodes_to_project" =>
      IF last'.node # None /\ last'.node \notin Range(heap.experiment)
        THEN /\ last'.err = RuntimeError
             /\ last'.ret = "raise"
             /\ last'.depth = 0
             /\ heap' = heap
             /\ ProjectValidate(heap') = ProjectValidate(heap)
        ELSE last'.err # RuntimeError
    ]_vars

\* The helper was called with the copy of an experiment and a budget on a
\* project with an orphaned process, and raised RuntimeError.
C14_Witness ==
  /\ last.op = "add_orphaned_nodes_to_project"
  /\ last.err = RuntimeError
  /\ last.node = 2
  /\ last.arg > 0
  /\ 2 \notin Range(heap.experiment)
  /\ ProjectValidate(heap).err = OrphanedProcessError

\* ------------------------------------------- more claims on find_children
RECURSIVE ChildSeq(_, _, _), PreOrder(_, _, _)
\* The nodes a node refers to, by field in declaration order (from the
\* i-th field on) and by position within a list field.
ChildSeq(h, n, i) ==
  LET fs == Fields(node_type(n)) IN
  IF i > Len(fs) THEN <<>>
  ELSE (IF FieldKind(fs[i]) = "list" THEN h[n][fs[i]]
        ELSE IF FieldKind(fs[i]) = "ref" /\ h[n][fs[i]] # None
          THEN <<h[n][fs[i]]>>
        ELSE <<>>) \o ChildSeq(h, n, i + 1)

\* Depth-first pre-order with a stack of (node, remaining depth): a node
\* is taken the first time it is popped, its children are pushed in order
\* unless the remaining depth is 0.
PreOrder(h, stack, acc) ==
  IF stack = <<>> THEN acc
  ELSE LET top == Head(stack) IN
    IF top.n \in Range(acc) THEN PreOrder(h, Tail(stack), acc)
    ELSE PreOrder(h,
           (IF top.d = 0 THEN <<>>
            ELSE [j \in 1..Len(ChildSeq(h, top.n, 1)) |->
                    [n |-> ChildSeq(h, top.n, 1)[j], d |-> top.d - 1]])
             \o Tail(stack),
           Append(acc, top.n))

\* C15: the result of find_children lists the matching nodes in depth-first
\* pre-order: the receiver first, then what each field yields in
\* declaration order and each list element in list order, every node at
\* the place it is first met.
C15_FindOrder ==
  last.op = "find_children" =>
    last.found =
      SelectSeq(PreOrder(heap, <<[n |-> last.node, d |-> last.depth]>>, <<>>),
                LAMBDA m : Satisfies(heap, m, last.arg))

\* A search from node 3 that found the first element of its list, what
\* lies below that element, and only then the second element.
C15_Witness ==
  /\ last.op = "find_children"
  /\ last.found = <<3, 2, 1, 4>>
  /\ heap[3].algorithms = <<2, 4>>

\* ------------------------------------------- more claims on remove_child
\* The positions of the fields that are the child or contain it.
FieldsWith(attrs, cls, child) ==
  {i \in 1..Len(Fields(cls)) :
     \/ FieldKind(Fields(cls)[i]) = "ref" /\ attrs[Fields(cls)[i]] = child
     \/ FieldKind(Fields(cls)[i]) = "list"
          /\ child \in Range(attrs[Fields(cls)[i]])}

\* The least number of a non-empty set of numbers.
Min(S) == CHOOSE i \in S : \A j \in S : i <= j

\* C16: remove_child changes no field but the first one, in declaration
\* order, that is the child or contains it; a singular first field is
\* reset to its default.
C16_RemoveChildFirstFieldOnly ==
  [][(last'.op = "remove_child" /\ last'.ret = "True") =>
      LET n == last'.node
          cls == node_type(n)
          with == FieldsWith(heap[n], cls, last'.arg)
      IN /\ with # {}
         /\ \A i \in 1..Len(Fields(cls)) :
              IF i = Min(with)
                THEN FieldKind(Fields(cls)[i]) = "ref" =>
                       heap'[n][Fields(cls)[i]] = JsonAttributes(cls)[Fields(cls)[i]]
                ELSE heap'[n][Fields(cls)[i]] = heap[n][Fields(cls)[i]]
    ]_vars

\* C17: find_children keeps a node it evaluates exactly when the node
\* satisfies the criterion, every requested value of every key being met
\* by some element of the field; a requested value met by two elements
\* does not make up for one that no element meets.
C17_EveryRequestedValue ==
  last.op = "find_children" =>
    \A m \in Range(last.evals) :
      m \in Range(last.found) <=> Satisfies(heap, m, last.arg)

\* A search for algorithms {} and {notes: k2} evaluated node 3, both of
\* whose algorithms meet {} and none of which has notes k2, and left it
\* out.
C17_Witness ==
  /\ last.op = "find_children"
  /\ last.arg = <<Entry("algorithms",
                   <<Dict(<<>>), Dict(<<Entry("notes", <<Plain("k2")>>)>>)>>)>>
  /\ heap[3].algorithms = <<2, 4>>
  /\ 3 \in Range(last.evals) \ Range(last.found)

\* ---------------------------------------------------- claims on _from_json
\* C18: the node _from_json returns holds, in every field whose key the
\* object has, the object's value, and in every other field the value the
\* constructor gave it; when validation refuses the record no node is
\* returned.
C18_FromJsonMerges ==
  last.op = "_from_json" =>
    LET n == last.node
        obj == last.dec.doc.attrs
    IN IF last.err = NoError
         THEN \A f \in Range(Fields(node_type(n))) :
                last.dec.heap[n][f] =
                  IF f \in DOMAIN obj THEN obj[f]
                  ELSE Construct(n, obj).attrs[f]
         ELSE last.dec.root = None

\* ------------------------------------------------- claims on list fields
\* C19: the records change only in a step of a setter, of remove_child or
\* of _update_json_attrs_if_valid, which ran validation; appending to a
\* list a getter returned, or to a list that was passed to a setter or to
\* the constructor, changes no record.
C19_OnlyValidatedReplace ==
  [][heap' # heap =>
       /\ last'.validated
       /\ last'.op \in {"Algorithm.setter", "SoftwareConfiguration.setter",
                        "remove_child", "_update_json_attrs_if_valid"}
    ]_vars
====
